---- MODULE Spec2Model ----
(***************************************************************************)
(* Model of load-originate.py: the FastScheduler timer queue and the       *)
(* SessionManager run loop, rate-control tick and event handlers.          *)
(* Time is counted in clock units of 1/Res second.                         *)
(***************************************************************************)
EXTENDS Integers, Sequences, FiniteSets, TLC

\* ---- bounds of the model ----
MaxRate == 2
MaxLimit == 2
MaxMaxSessions == 2
MaxTime == 4
MaxAnswered == 2
MaxConfirmed == 3
MaxEntries == 3
MaxPending == 2

\* clock units per second
Res == 2

UUIDs == {"a", "b"}
Causes == {"NORMAL_CLEARING", "USER_BUSY"}
Directions == {"outbound", "inbound"}
TimerActions == {"noop", "sched0", "sched1"}
Delays == {0, 1}

VARIABLES
    rate, limit, max_sessions,      \* Scheduler Configuration
    sessions,                       \* uuid -> answered
    hangup_causes,                  \* cause -> count
    total_originated_sessions,
    total_answered_sessions,
    total_failed_sessions,
    terminate,
    queue,                          \* FastScheduler.queue, ordered by (time, priority)
    clock,                          \* value time.time() returns
    pc,                             \* position of run()
    now,                            \* local `now` of fast_run
    sched_sleep,                    \* local of run() while recvEventTimed waits, else 0
    wait_until,                     \* clock value at which recvEventTimed times out, else 0
    connected,                      \* transport still delivers events
    cmds,                           \* bgapi originate commands issued
    pending,                        \* issued originate commands not yet confirmed
    hangup_cmds,                    \* sched_hangup commands issued
    ev,                             \* event handed to process_event in the last step
    step,                           \* kind of the last step
    live_hist,                      \* ids originated (outbound) and not hung up since
    answer_hist,                    \* ids of live_hist with an answer event processed since
    never_answered,                 \* hangups of ids of live_hist not in answer_hist
    snapshot,                       \* queue when fast_run sampled the clock
    executed,                       \* entries run by the current fast_run call
    nextId                          \* number of timer entries created

vars == <<rate, limit, max_sessions, sessions, hangup_causes,
          total_originated_sessions, total_answered_sessions,
          total_failed_sessions, terminate, queue, clock, pc, now,
          sched_sleep, wait_until, connected, cmds, pending, hangup_cmds,
          ev, step, live_hist, answer_hist, never_answered, snapshot,
          executed, nextId>>

config == <<rate, limit, max_sessions>>
manager == <<sessions, hangup_causes, total_originated_sessions,
             total_answered_sessions, total_failed_sessions, terminate,
             hangup_cmds>>
drain == <<now, snapshot, executed>>
hangup_hist == <<answer_hist, never_answered>>

NoEv == [name |-> "NONE", uuid |-> "", dir |-> "", cause |-> "",
         known |-> FALSE, apifail |-> FALSE]

Min(a, b) == IF a < b THEN a ELSE b

live_count == Cardinality(DOMAIN sessions)

RECURSIVE SumOver(_, _)
SumOver(f, S) ==
    IF S = {} THEN 0
    ELSE LET c == CHOOSE x \in S : TRUE IN f[c] + SumOver(f, S \ {c})

total_hangups == SumOver(hangup_causes, DOMAIN hangup_causes)

\* ---------------------------------------------------------------------
\* FastScheduler
\* ---------------------------------------------------------------------

\* order of the heap: (time, priority)
Before(x, y) == x.time < y.time \/ (x.time = y.time /\ x.priority < y.priority)

\* sched.scheduler.enterabs: the queues that can result from pushing entry x
\* (the place among entries of equal time and priority is not determined)
Enter(q, x) ==
    { SubSeq(q, 1, i) \o <<x>> \o SubSeq(q, i + 1, Len(q)) :
        i \in { j \in 0..Len(q) :
                  /\ \A k \in 1..j : ~Before(x, q[k])
                  /\ \A k \in (j + 1)..Len(q) : ~Before(q[k], x) } }

CancelHead_Keep(q) == q

\* self.cancel(q[0])
CancelHead(q) == Tail(q)

\* fast_run: `if now < time: break`, for the head of q and the sample t
NotYetDue(q, t) == t < q[1].time

IsDue_Resample(q, t) == clock >= q[1].time

\* fast_run: `if now >= time:`, for the head of q and the sample t
IsDue(q, t) == t >= q[1].time

next_event_time_delta(q, t) ==
    IF Len(q) <= 0 THEN -1
    ELSE IF q[1].time > t THEN (q[1].time - t) \div Res
    ELSE 0

\* ---------------------------------------------------------------------
\* SessionManager.originate_sessions
\* ---------------------------------------------------------------------

DoneOriginating_Strict == total_originated_sessions > max_sessions

\* `if self.total_originated_sessions >= self.max_sessions`
DoneOriginating == total_originated_sessions >= max_sessions

\* the for loop of originate_sessions: commands issued from iteration i on
RECURSIVE IssueLoop(_, _, _)
IssueLoop(i, sesscnt, issued) ==
    IF i >= rate THEN issued
    ELSE IF sesscnt >= limit THEN issued
    ELSE IssueLoop(i + 1, sesscnt + 1, issued + 1)

\* originate_sessions run with q as the timer queue
originate_sessions(q) ==
    IF DoneOriginating
    THEN /\ queue' = q
         /\ UNCHANGED <<cmds, pending>>
    ELSE LET n == IssueLoop(0, live_count, 0) IN
         /\ cmds' = cmds + n
         /\ pending' = pending + n
         /\ queue' \in Enter(q, [time |-> clock + 1 * Res, priority |-> 1,
                                 action |-> "originate_sessions", id |-> 0])

\* ---------------------------------------------------------------------
\* SessionManager event handlers (each leaves `manager` variables it does
\* not assign unchanged)
\* ---------------------------------------------------------------------

IsDuplicate_Never(uuid) == FALSE

\* `if uuid in self.sessions` of handle_originate
IsDuplicate(uuid) == uuid \in DOMAIN sessions

NotOutbound_Never(dir) == FALSE

\* `if dir != 'outbound'` of handle_originate
NotOutbound(dir) == dir # "outbound"

handle_originate(e) ==
    IF NotOutbound(e.dir)
    THEN UNCHANGED manager
    ELSE IF IsDuplicate(e.uuid)
    THEN UNCHANGED manager
    ELSE /\ sessions' = [u \in DOMAIN sessions \cup {e.uuid} |->
                            IF u = e.uuid THEN FALSE ELSE sessions[u]]
         /\ total_originated_sessions' = total_originated_sessions + 1
         \* con.api('sched_hangup ...') is the last statement: when it raises,
         \* the assignments above have already been made
         /\ hangup_cmds' = IF e.apifail THEN hangup_cmds ELSE hangup_cmds + 1
         /\ UNCHANGED <<hangup_causes, total_answered_sessions,
                        total_failed_sessions, terminate>>

\* handle_answer without `self.sessions[uuid].answered = True`
handle_answer_NoMark(e) ==
    IF e.uuid \notin DOMAIN sessions
    THEN UNCHANGED manager
    ELSE /\ total_answered_sessions' = total_answered_sessions + 1
         /\ UNCHANGED <<sessions, hangup_causes, total_originated_sessions,
                        total_failed_sessions, terminate, hangup_cmds>>

handle_answer(e) ==
    IF e.uuid \notin DOMAIN sessions
    THEN UNCHANGED manager
    ELSE /\ total_answered_sessions' = total_answered_sessions + 1
         /\ sessions' = [sessions EXCEPT ![e.uuid] = TRUE]
         /\ UNCHANGED <<hangup_causes, total_originated_sessions,
                        total_failed_sessions, terminate, hangup_cmds>>

RunComplete_TableOnly(sess) == Cardinality(DOMAIN sess) = 0

RunComplete_Strict(sess) ==
    total_originated_sessions > max_sessions /\ Cardinality(DOMAIN sess) = 0

\* the completion test of handle_hangup, on the table left after the delete
RunComplete(sess) ==
    total_originated_sessions >= max_sessions /\ Cardinality(DOMAIN sess) = 0

DelSession_Keep(sess, uuid) == sess

\* del self.sessions[uuid]
DelSession(sess, uuid) == [u \in DOMAIN sess \ {uuid} |-> sess[u]]

\* hangup_causes after counting one more hangup with the given cause
CountCause(causes, cause) ==
    IF cause \notin DOMAIN causes
    THEN [c \in DOMAIN causes \cup {cause} |->
            IF c = cause THEN 1 ELSE causes[c]]
    ELSE [causes EXCEPT ![cause] = causes[cause] + 1]

\* handle_hangup with the cause counted before the table is consulted
handle_hangup_CountFirst(e) ==
    /\ hangup_causes' = CountCause(hangup_causes, e.cause)
    /\ IF e.uuid \notin DOMAIN sessions
       THEN UNCHANGED <<sessions, total_failed_sessions, terminate>>
       ELSE LET left == DelSession(sessions, e.uuid) IN
            /\ total_failed_sessions' =
                   IF ~sessions[e.uuid] THEN total_failed_sessions + 1
                   ELSE total_failed_sessions
            /\ sessions' = left
            /\ terminate' = IF RunComplete(left) THEN TRUE ELSE terminate
    /\ UNCHANGED <<total_originated_sessions, total_answered_sessions,
                   hangup_cmds>>

handle_hangup(e) ==
    IF e.uuid \notin DOMAIN sessions
    THEN UNCHANGED manager
    ELSE LET left == DelSession(sessions, e.uuid) IN
         /\ hangup_causes' = CountCause(hangup_causes, e.cause)
         /\ total_failed_sessions' =
                IF ~sessions[e.uuid] THEN total_failed_sessions + 1
                ELSE total_failed_sessions
         /\ sessions' = left
         /\ terminate' = IF RunComplete(left) THEN TRUE ELSE terminate
         /\ UNCHANGED <<total_originated_sessions, total_answered_sessions,
                        hangup_cmds>>

\* def handle_disconnect(self): the body, were it entered
handle_disconnect ==
    /\ terminate' = TRUE
    /\ UNCHANGED <<sessions, hangup_causes, total_originated_sessions,
                   total_answered_sessions, total_failed_sessions, hangup_cmds>>

\* number of parameters, besides self, each handler is declared with
HandlerParams(evname) ==
    IF evname = "SERVER_DISCONNECTED" THEN 0 ELSE 1

ev_handlers == {"CHANNEL_ORIGINATE", "CHANNEL_ANSWER", "CHANNEL_HANGUP",
                "SERVER_DISCONNECTED"}

\* process_event: self.ev_handlers[evname](e) inside try/except Exception
process_event(e) ==
    IF e.name \in ev_handlers
    THEN IF HandlerParams(e.name) # 1
         \* the call passes one argument: TypeError, caught and logged
         THEN UNCHANGED manager
         ELSE CASE e.name = "CHANNEL_ORIGINATE" -> handle_originate(e)
                [] e.name = "CHANNEL_ANSWER" -> handle_answer(e)
                [] e.name = "CHANNEL_HANGUP" -> handle_hangup(e)
                [] OTHER -> handle_disconnect
    ELSE UNCHANGED manager

\* ---------------------------------------------------------------------
\* The transport: events recvEventTimed can return
\* ---------------------------------------------------------------------

Events ==
    { [name |-> "CHANNEL_ORIGINATE", uuid |-> u, dir |-> d, cause |-> "",
       known |-> FALSE, apifail |-> f] :
         u \in UUIDs, d \in Directions, f \in BOOLEAN }
    \cup { [name |-> "CHANNEL_ANSWER", uuid |-> u, dir |-> "", cause |-> "",
            known |-> FALSE, apifail |-> FALSE] : u \in UUIDs }
    \cup { [name |-> "CHANNEL_HANGUP", uuid |-> u, dir |-> "", cause |-> c,
            known |-> FALSE, apifail |-> FALSE] : u \in UUIDs, c \in Causes }
    \cup { [name |-> n, uuid |-> "", dir |-> "", cause |-> "",
            known |-> FALSE, apifail |-> FALSE] :
              n \in {"HEARTBEAT", "SERVER_DISCONNECTED"} }

\* a fresh outbound leg: the switch confirms an originate command it was sent
Confirms(e) ==
    e.name = "CHANNEL_ORIGINATE" /\ e.dir = "outbound" /\ e.uuid \notin DOMAIN sessions

\* what the switch can send in the current state
Deliverable(e) ==
    /\ Confirms(e) => pending > 0 /\ total_originated_sessions < MaxConfirmed
    /\ e.apifail => Confirms(e)
    /\ (e.name = "CHANNEL_ANSWER" /\ e.uuid \in DOMAIN sessions)
          => total_answered_sessions < MaxAnswered

\* ---------------------------------------------------------------------
\* FastScheduler.fast_run, one step per loop iteration
\* ---------------------------------------------------------------------

\* q = self.queue; now = self.timefunc()
FastRunEnter(at) ==
    /\ pc = at
    /\ pc' = "drain"
    /\ now' = clock
    /\ snapshot' = queue
    /\ executed' = <<>>
    /\ step' = "fast_run"
    /\ ev' = NoEv
    /\ UNCHANGED <<config, manager, queue, clock, sched_sleep, wait_until,
                   connected, cmds, pending, live_hist, hangup_hist, nextId>>

\* the while loop ends: the queue is empty or its head is not yet due
FastRunExit(to) ==
    /\ pc = "drain"
    /\ IF Len(queue) = 0 THEN TRUE ELSE NotYetDue(queue, now)
    /\ pc' = to
    \* fast_run returns: its locals are gone
    /\ now' = 0
    /\ snapshot' = <<>>
    /\ executed' = <<>>
    /\ step' = "fast_run_end"
    /\ ev' = NoEv
    /\ UNCHANGED <<config, manager, queue, clock, sched_sleep,
                   wait_until, connected, cmds, pending, live_hist, hangup_hist, nextId>>

\* an iteration whose head entry is the rate-control tick
FastRunTick ==
    /\ pc = "drain"
    /\ Len(queue) > 0
    /\ IsDue(queue, now)
    /\ queue[1].action = "originate_sessions"
    /\ executed' = Append(executed, queue[1])
    /\ originate_sessions(CancelHead(queue))
    /\ step' = "tick"
    /\ ev' = NoEv
    /\ UNCHANGED <<config, manager, clock, pc, now, snapshot, sched_sleep,
                   wait_until, connected, live_hist, hangup_hist, nextId>>

\* delay, in clock units, with which a callback of the given kind re-enters
ActionDelay(a) == IF a = "sched0" THEN 0 ELSE 1

\* an iteration whose head entry is some other callback: it does nothing, or
\* it enters a new entry with delay 0 or with a positive delay
FastRunCallback ==
    /\ pc = "drain"
    /\ Len(queue) > 0
    /\ IsDue(queue, now)
    /\ queue[1].action \in TimerActions
    /\ executed' = Append(executed, queue[1])
    /\ IF queue[1].action = "noop"
       THEN queue' = CancelHead(queue) /\ UNCHANGED nextId
       ELSE /\ nextId < MaxEntries
            /\ nextId' = nextId + 1
            /\ queue' \in Enter(CancelHead(queue),
                              [time |-> clock + ActionDelay(queue[1].action),
                               priority |-> 1, action |-> "noop",
                               id |-> nextId])
    /\ step' = "callback"
    /\ ev' = NoEv
    /\ UNCHANGED <<config, manager, clock, pc, now, snapshot, sched_sleep,
                   wait_until, connected, cmds, pending, live_hist, hangup_hist>>

\* sched.scheduler.enter called between two fast_run calls
TimerEnter ==
    /\ pc = "idle"
    /\ nextId < MaxEntries
    /\ nextId' = nextId + 1
    /\ \E d \in Delays, a \in TimerActions :
         queue' \in Enter(queue, [time |-> clock + d, priority |-> 1,
                                  action |-> a, id |-> nextId])
    /\ step' = "enter"
    /\ ev' = NoEv
    /\ UNCHANGED <<config, manager, clock, pc, drain, sched_sleep, wait_until,
                   connected, cmds, pending, live_hist, hangup_hist>>

\* time passes
Advance ==
    /\ clock < MaxTime
    /\ clock' = clock + 1
    /\ step' = "advance"
    /\ ev' = NoEv
    /\ UNCHANGED <<config, manager, queue, pc, drain, sched_sleep, wait_until,
                   connected, cmds, pending, live_hist, hangup_hist, nextId>>

\* ---------------------------------------------------------------------
\* SessionManager.run
\* ---------------------------------------------------------------------

\* self.originate_sessions() before the loop
RunStart ==
    /\ pc = "start"
    /\ pc' = "loop"
    /\ originate_sessions(queue)
    /\ step' = "tick"
    /\ ev' = NoEv
    /\ UNCHANGED <<config, manager, clock, drain, sched_sleep, wait_until,
                   connected, live_hist, hangup_hist, nextId>>

\* sched_sleep = next_event_time_delta(); 0 becomes 1; recvEventTimed starts
RunSleep ==
    /\ pc = "delta"
    /\ pc' = "recv"
    /\ LET d == next_event_time_delta(queue, clock) IN
         sched_sleep' = IF d = 0 THEN 1 ELSE d
    /\ wait_until' = clock + sched_sleep' * Res
    /\ step' = "sleep"
    /\ ev' = NoEv
    /\ UNCHANGED <<config, manager, queue, clock, drain, connected, cmds,
                   pending, live_hist, hangup_hist, nextId>>

\* recvEventTimed returns None: `continue`
RecvTimeout ==
    /\ pc = "recv"
    /\ IF sched_sleep < 0 THEN TRUE ELSE clock >= wait_until
    /\ pc' = "loop"
    /\ sched_sleep' = 0
    /\ wait_until' = 0
    /\ step' = "timeout"
    /\ ev' = NoEv
    /\ UNCHANGED <<config, manager, queue, clock, drain, connected, cmds,
                   pending, live_hist, hangup_hist, nextId>>

\* recvEventTimed returns an event: process_event(e), then the terminate test
RecvEvent ==
    /\ pc = "recv"
    /\ connected
    /\ \E e \in Events :
         /\ Deliverable(e)
         /\ process_event(e)
         /\ ev' = [e EXCEPT !.known = e.uuid \in DOMAIN sessions]
         /\ pending' = IF Confirms(e) THEN pending - 1 ELSE pending
         /\ connected' = (e.name # "SERVER_DISCONNECTED")
         /\ live_hist' =
              IF e.name = "CHANNEL_ORIGINATE" /\ e.dir = "outbound"
              THEN live_hist \cup {e.uuid}
              ELSE IF e.name = "CHANNEL_HANGUP" THEN live_hist \ {e.uuid}
              ELSE live_hist
         /\ answer_hist' =
              IF e.name = "CHANNEL_ANSWER" /\ e.uuid \in live_hist
              THEN answer_hist \cup {e.uuid}
              ELSE IF e.name = "CHANNEL_HANGUP" THEN answer_hist \ {e.uuid}
              ELSE answer_hist
         /\ never_answered' =
              IF e.name = "CHANNEL_HANGUP" /\ e.uuid \in live_hist
                 /\ e.uuid \notin answer_hist
              THEN never_answered + 1
              ELSE never_answered
    /\ pc' = IF terminate' THEN "done" ELSE "loop"
    /\ sched_sleep' = 0
    /\ wait_until' = 0
    /\ step' = "event"
    /\ UNCHANGED <<config, queue, clock, drain, cmds, nextId>>

\* ---------------------------------------------------------------------
\* Specifications
\* ---------------------------------------------------------------------

InitManager ==
    /\ sessions = <<>>
    /\ hangup_causes = <<>>
    /\ total_originated_sessions = 0
    /\ total_answered_sessions = 0
    /\ total_failed_sessions = 0
    /\ terminate = FALSE
    /\ queue = <<>>
    /\ clock = 0
    /\ now = 0
    /\ sched_sleep = 0
    /\ wait_until = 0
    /\ connected = TRUE
    /\ cmds = 0
    /\ pending = 0
    /\ hangup_cmds = 0
    /\ ev = NoEv
    /\ step = "init"
    /\ live_hist = {}
    /\ answer_hist = {}
    /\ never_answered = 0
    /\ snapshot = <<>>
    /\ executed = <<>>
    /\ nextId = 0

\* SessionManager.__init__ for some configuration, run() not yet entered
Init ==
    /\ rate \in 1..MaxRate
    /\ limit \in 1..MaxLimit
    /\ max_sessions \in 0..MaxMaxSessions
    /\ pc = "start"
    /\ InitManager

Next ==
    \/ RunStart
    \/ FastRunEnter("loop")
    \/ FastRunTick
    \/ FastRunExit("delta")
    \/ RunSleep
    \/ RecvTimeout
    \/ RecvEvent
    \/ Advance

Spec == Init /\ [][Next]_vars

\* ---- the run loop under fairness -----------------------------------
\* Time is kept relative to the current instant: the clock stays where it
\* is and every stored time moves one unit closer.  Time passes while
\* recvEventTimed waits, and only while fewer than MaxPending originate
\* commands await their confirmation.
LiveAdvance ==
    /\ pc = "recv"
    /\ sched_sleep >= 0
    /\ clock < wait_until
    /\ pending < MaxPending
    /\ wait_until' = wait_until - 1
    /\ queue' = [i \in 1..Len(queue) |->
                   [queue[i] EXCEPT !.time = queue[i].time - 1]]
    /\ step' = "advance"
    /\ ev' = NoEv
    /\ UNCHANGED <<config, manager, clock, pc, drain, sched_sleep, connected,
                   cmds, pending, live_hist, hangup_hist, nextId>>

\* the transport stays connected and its calls succeed
LiveRecvEvent ==
    /\ RecvEvent
    /\ ev'.name # "SERVER_DISCONNECTED"
    /\ ~ev'.apifail

\* an issued originate command is confirmed with a fresh id
Confirmed ==
    /\ LiveRecvEvent
    /\ ev'.name = "CHANNEL_ORIGINATE"
    /\ ev'.dir = "outbound"
    /\ ~ev'.known

\* the live session u receives its hangup event
HungUp(u) ==
    /\ LiveRecvEvent
    /\ ev'.name = "CHANNEL_HANGUP"
    /\ ev'.uuid = u
    /\ ev'.known

LiveInit ==
    /\ rate \in 1..MaxRate
    /\ limit \in 1..MaxLimit
    /\ max_sessions \in 1..MaxMaxSessions
    /\ pc = "start"
    /\ InitManager

LiveNext ==
    \/ RunStart
    \/ FastRunEnter("loop")
    \/ FastRunTick
    \/ FastRunExit("delta")
    \/ RunSleep
    \/ RecvTimeout
    \/ LiveRecvEvent
    \/ LiveAdvance

\* the process keeps running, the timer keeps advancing, every command is
\* eventually confirmed and every live session eventually hung up
LiveFairness ==
    /\ WF_vars(RunStart)
    /\ WF_vars(FastRunEnter("loop"))
    /\ WF_vars(FastRunTick)
    /\ WF_vars(FastRunExit("delta"))
    /\ WF_vars(RunSleep)
    /\ WF_vars(RecvTimeout)
    /\ SF_vars(LiveAdvance)
    /\ SF_vars(Confirmed)
    /\ \A u \in UUIDs : SF_vars(HungUp(u))

LiveSpec == LiveInit /\ [][LiveNext]_vars /\ LiveFairness

\* a FastScheduler on its own, driven by enter and fast_run calls
TimerInit ==
    /\ rate = 1
    /\ limit = 1
    /\ max_sessions = 1
    /\ pc = "idle"
    /\ InitManager

TimerNext ==
    \/ TimerEnter
    \/ FastRunEnter("idle")
    \/ FastRunCallback
    \/ FastRunExit("idle")
    \/ Advance

TimerSpec == TimerInit /\ [][TimerNext]_vars

\* ---------------------------------------------------------------------
\* Properties
\* ---------------------------------------------------------------------

HasTick(q) == \E i \in 1..Len(q) : q[i].action = "originate_sessions"

IsEvent(n) == step = "event" /\ ev.name = n

\* C1: total_originated never exceeds max_sessions, whatever the
\* configuration and the interleaving of ticks with confirmations.
C1_TotalCeiling == total_originated_sessions <= max_sessions

\* C2: the number of live sessions never exceeds the concurrency limit, also
\* when commands of one tick are confirmed after a later tick issued more.
C2_LiveWithinLimit == live_count <= limit

\* C3: a tick issues at most min(rate, limit - live_count) commands, live_count
\* taken when the tick starts, and exactly that many when
\* total_originated < max_sessions and live_count <= limit.
C3_TickIssueBound ==
    [][step' = "tick" =>
         LET n == cmds' - cmds
             d == Min(rate, limit - live_count)
         IN /\ n <= d
            /\ (total_originated_sessions < max_sessions /\ live_count <= limit)
                  => n = d]_vars

\* C4: once total_originated >= max_sessions, no step issues an origination
\* command, and a tick run in that state leaves no tick entry armed.
C4_NoOriginateAfterCeiling ==
    [][total_originated_sessions >= max_sessions =>
         /\ total_originated_sessions' >= max_sessions
         /\ cmds' = cmds
         /\ (step' = "tick" => ~HasTick(queue'))]_vars

C4_Witness ==
    /\ step = "tick"
    /\ total_originated_sessions >= max_sessions
    /\ total_originated_sessions > 0
    /\ queue = <<>>
    /\ pc = "drain"

\* C5: dispatching a SERVER_DISCONNECTED event sets the terminate flag and the
\* run loop exits right after it.
C5_DisconnectTerminates ==
    [][(step' = "event" /\ ev'.name = "SERVER_DISCONNECTED")
          => (terminate' /\ pc' = "done")]_vars

\* C6: terminate is never cleared, and it is set only by a hangup step after
\* which total_originated >= max_sessions and the table is empty, or by a
\* step that processes a disconnection; no other event or tick sets it.
C6_TerminationLaw ==
    [][/\ terminate => terminate'
       /\ (~terminate /\ terminate') =>
             /\ step' = "event"
             /\ ev'.name \in {"CHANNEL_HANGUP", "SERVER_DISCONNECTED"}
             /\ ev'.name = "CHANNEL_HANGUP" =>
                   /\ total_originated_sessions' >= max_sessions
                   /\ DOMAIN sessions' = {}]_vars

C6_Witness ==
    /\ terminate
    /\ IsEvent("CHANNEL_HANGUP")
    /\ pc = "done"
    /\ total_originated_sessions > 0

\* C7: the table size equals total_originated minus the hangups recorded, and
\* the ids in the table are those with an outbound origination-confirmed
\* event processed and no hangup event processed since.
C7_CounterConsistency ==
    /\ live_count = total_originated_sessions - total_hangups
    /\ DOMAIN sessions = live_hist

C7_Witness ==
    /\ live_count > 0
    /\ total_hangups > 0
    /\ IsEvent("CHANNEL_ORIGINATE")
    /\ ev.known

\* C8: an outbound origination-confirmed event for an id already in the table
\* changes neither the table (answered flags included), nor any counter, nor
\* the terminate flag, and issues no command.
C8_DuplicateOriginateNoop ==
    [][(step' = "event" /\ ev'.name = "CHANNEL_ORIGINATE"
          /\ ev'.dir = "outbound" /\ ev'.known)
          => UNCHANGED <<manager, cmds>>]_vars

C8_Witness ==
    /\ IsEvent("CHANNEL_ORIGINATE")
    /\ ev.dir = "outbound"
    /\ ev.known
    /\ sessions[ev.uuid]
    /\ total_originated_sessions = 1

\* C9: a hangup event for an id that is not in the table changes nothing,
\* for every cause label.
C9_UnknownHangupNoop ==
    [][(step' = "event" /\ ev'.name = "CHANNEL_HANGUP" /\ ~ev'.known)
          => UNCHANGED manager]_vars

C9_Witness ==
    /\ IsEvent("CHANNEL_HANGUP")
    /\ ~ev.known
    /\ ev.cause = "USER_BUSY"
    /\ live_count > 0
    /\ "USER_BUSY" \notin DOMAIN hangup_causes

\* the while loop of fast_run is about to end
DrainDone ==
    /\ pc = "drain"
    /\ IF Len(queue) = 0 THEN TRUE ELSE NotYetDue(queue, now)

WasPending(x) == \E i \in 1..Len(snapshot) : snapshot[i] = x

DueAtSample(x) == x.time <= now

\* C10 as stated: one fast_run call executes exactly the entries that were
\* pending when the clock was sampled and due by the sample, in order; no
\* entry entered during the drain (any delay >= 0) runs in that call.
C10_DrainOnlyPending ==
    DrainDone => executed = SelectSeq(snapshot, DueAtSample)

\* C10 as amended: one fast_run call executes only entries due by the single
\* sample, in due-time order, and all of them: the pending ones due by the
\* sample and any entry entered during the drain whose due time equals the
\* sample (delay 0 with the clock still at the sample); entries due after the
\* sample stay in the queue.
C10_DrainBound ==
    /\ pc = "drain" =>
          /\ \A i \in 1..Len(executed) : executed[i].time <= now
          /\ \A i \in 1..Len(executed) :
                ~WasPending(executed[i]) => executed[i].time = now
          /\ \A i, j \in 1..Len(executed) :
                i < j => executed[i].time <= executed[j].time
    /\ DrainDone =>
          /\ SelectSeq(executed, WasPending) = SelectSeq(snapshot, DueAtSample)
          /\ \A i \in 1..Len(queue) : queue[i].time > now

C10_Witness ==
    /\ DrainDone
    /\ \E i \in 1..Len(executed) : ~WasPending(executed[i])
    /\ \E i \in 1..Len(executed) : WasPending(executed[i])
    /\ \E i \in 1..Len(queue) :
          WasPending(queue[i]) /\ queue[i].time <= clock

\* run() has entered its loop and not left it
InRunLoop == pc \in {"loop", "drain", "delta", "recv"}

\* C11: while the run loop is running, total_originated >= max_sessions with
\* an empty table implies that the terminate flag is set.
C11_CompletionImpliesTerminate ==
    (InRunLoop /\ total_originated_sessions >= max_sessions /\ live_count = 0)
       => terminate

\* the handler called for event e raised an exception
Raised(e) == e.apifail \/ (e.name \in ev_handlers /\ HandlerParams(e.name) # 1)

\* C12: when a handler raises, the exception stays inside the run loop and
\* the event has no effect on the table or on any counter.
C12_RaisedEventDropped ==
    [][(step' = "event" /\ Raised(ev'))
          => /\ pc' \in {"loop", "done"}
             /\ UNCHANGED <<sessions, hangup_causes, total_originated_sessions,
                            total_answered_sessions, total_failed_sessions>>]_vars

\* C13: the timeout handed to recvEventTimed is always a positive duration;
\* the empty-queue sentinel is never passed on.
C13_PositiveTimeout == pc = "recv" => sched_sleep > 0

\* C14: where run() calls next_event_time_delta, the result is the sentinel
\* exactly when the queue is empty, 0 exactly when the earliest entry is due
\* or overdue, and otherwise the positive time left (in seconds, so times Res
\* in clock units), also when that is less than one second.
C14_TimeDeltaExact ==
    pc = "delta" =>
       LET d == next_event_time_delta(queue, clock) IN
       /\ d = -1 <=> Len(queue) = 0
       /\ d = 0 <=> (Len(queue) > 0 /\ queue[1].time <= clock)
       /\ (Len(queue) > 0 /\ queue[1].time > clock)
             => (d > 0 /\ d * Res = queue[1].time - clock)

\* C19: no session is counted as answered twice: total_answered and
\* total_answered + total_failed never exceed total_originated.
C19_AnsweredWithinOriginated ==
    /\ total_answered_sessions <= total_originated_sessions
    /\ total_answered_sessions + total_failed_sessions
          <= total_originated_sessions

TickCount(q) ==
    Cardinality({i \in 1..Len(q) : q[i].action = "originate_sessions"})

\* C15: after a tick that ran with total_originated < max_sessions exactly
\* one tick entry is pending, due one second after the tick ran, whether or
\* not commands were issued; after a tick that ran with total_originated >=
\* max_sessions none is pending; never is more than one tick pending.
C15_TickRearm ==
    [][/\ TickCount(queue') <= 1
       /\ step' = "tick" =>
             IF total_originated_sessions < max_sessions
             THEN /\ TickCount(queue') = 1
                  /\ \A i \in 1..Len(queue') :
                        queue'[i].action = "originate_sessions"
                           => queue'[i].time = clock + Res
             ELSE TickCount(queue') = 0]_vars

C15_Witness ==
    /\ step = "tick"
    /\ total_originated_sessions < max_sessions
    /\ live_count >= limit
    /\ TickCount(queue) = 1
    /\ queue[1].time = clock + Res
    /\ clock > 0

\* C16: every session created has exactly one forced-hangup request armed in
\* the step that creates it, and no other step arms one, so the requests
\* armed always number total_originated.
C16_OneForcedHangupPerSession ==
    [][/\ total_originated_sessions' = total_originated_sessions + 1
             => hangup_cmds' = hangup_cmds + 1
       /\ total_originated_sessions' = total_originated_sessions
             => hangup_cmds' = hangup_cmds
       /\ hangup_cmds' = total_originated_sessions']_vars

\* C17: an origination-confirmed event whose direction is not outbound
\* changes nothing, whether its id is in the table or not.
C17_NonOutboundNoop ==
    [][(step' = "event" /\ ev'.name = "CHANNEL_ORIGINATE"
          /\ ev'.dir # "outbound")
          => UNCHANGED <<manager, cmds>>]_vars

C17_Witness ==
    /\ IsEvent("CHANNEL_ORIGINATE")
    /\ ev.dir = "inbound"
    /\ ~ev.known
    /\ live_count = 1
    /\ pending > 0

CauseCount(causes, c) == IF c \in DOMAIN causes THEN causes[c] ELSE 0

\* C18: a hangup event for a known id adds exactly 1 to the count of its
\* cause, removes the session, and adds 1 to total_failed exactly when no
\* answer event was processed for the session while it was live; so
\* total_failed is the number of sessions hung up unanswered and never
\* exceeds the hangups recorded.
C18_HangupAccounting ==
    [][/\ (step' = "event" /\ ev'.name = "CHANNEL_HANGUP" /\ ev'.known) =>
             /\ \A c \in Causes :
                   CauseCount(hangup_causes', c) =
                      CauseCount(hangup_causes, c)
                         + (IF c = ev'.cause THEN 1 ELSE 0)
             /\ DOMAIN sessions' = DOMAIN sessions \ {ev'.uuid}
             /\ ev'.uuid \in DOMAIN sessions
             /\ total_failed_sessions' =
                   total_failed_sessions
                      + (IF ev'.uuid \in answer_hist THEN 0 ELSE 1)
       /\ total_failed_sessions' = never_answered'
       /\ total_failed_sessions' <= SumOver(hangup_causes', DOMAIN hangup_causes')
      ]_vars

C18_Witness ==
    /\ IsEvent("CHANNEL_HANGUP")
    /\ ev.known
    /\ total_hangups = 2
    /\ total_failed_sessions = 1
    /\ total_answered_sessions >= 1
    /\ Cardinality(DOMAIN hangup_causes) = 2

\* C20: with rate, limit and max_sessions all >= 1, under LiveFairness the
\* terminate flag eventually becomes true and the run loop exits.
C20_EventuallyTerminates == <>(terminate /\ pc = "done")

C20_Witness ==
    /\ terminate
    /\ pc = "done"
    /\ total_originated_sessions >= max_sessions
    /\ live_count = 0
    /\ total_hangups >= 2

====
